---- MODULE Spec2Model ----
(***************************************************************************)
(* Model of the measurement core of maptestAgent: polygon geometry         *)
(* (image_processor.py, area_calculator.py, property_detector.py), manual  *)
(* scale calibration (scale_detector.py, area_calculator.py) and the       *)
(* measuring HTTP handlers (api.py).                                       *)
(*                                                                         *)
(* Conventions.                                                            *)
(*  - A real number is a normalised fraction [n |-> Int, d |-> Nat \ {0}]  *)
(*    (Rat).  Arithmetic on them is exact; np.sqrt of a non-square is held *)
(*    in thousandths (floor), and a length is summed in thousandths.       *)
(*  - A point is <<x, y>>; a contour / polygon is a sequence of points.    *)
(*  - Python's None is << >>, a present optional value v is <<v>>.         *)
(*  - A formatted number (f"{x:.2f}", or the literal "0") is a sequence of *)
(*    one-character strings, so that its digits can be inspected.          *)
(*  - A behaviour is one call: `call` holds the operation and its          *)
(*    arguments, `ret` what it returned or raised (Pending before), and    *)
(*    `frame` the local variables of the handler when it returned.         *)
(*  - Spec covers the geometry functions, the calibration functions, the   *)
(*    scale detectors and the measuring handlers; UnitsSpec the unit       *)
(*    conversions and the zone handler; ClosureSpec a client that holds    *)
(*    one contour array and calls the closure, length and area methods on  *)
(*    it any number of times; ConcurrentSpec interleaved invocations of    *)
(*    the pipeline on the shared processor instance.                       *)
(***************************************************************************)
EXTENDS Integers, Sequences, FiniteSets, TLC

VARIABLES call, ret, frame

vars == <<call, ret, frame>>

(***************************************************************************)
(* Bounds of the model.                                                    *)
(***************************************************************************)
\* longest polygon handed to the pure geometry functions
MaxPts == 4
\* polygon coordinates handed to the pure geometry functions are 0..MaxCoord
MaxCoord == 1
\* most foreground regions in one image
MaxRegions == 2
\* longest side of the axis-aligned squares handed to the geometry functions
MaxSide == 3
\* most successful auto_close_contour calls on one contour
MaxCloses == 2
\* largest whole number of square meters handed to convert_to_all_units
MaxArea == 5
\* invocations running at once on the shared processor
MaxInvocations == 2

(***************************************************************************)
(* Numbers.                                                                *)
(***************************************************************************)
None == << >>

Some(v) == <<v>>

Abs(x) == IF x < 0 THEN -x ELSE x

RECURSIVE GCD(_, _)
GCD(a, b) == IF b = 0 THEN a ELSE GCD(b, a % b)

Rat(n, d) ==
    LET g == GCD(Abs(n), Abs(d))
        s == IF d < 0 THEN -1 ELSE 1
    IN  [n |-> (s * n) \div g, d |-> (s * d) \div g]

Zero == Rat(0, 1)

RatAdd(a, b) == Rat(a.n * b.d + b.n * a.d, a.d * b.d)

RatMul(a, b) == Rat(a.n * b.n, a.d * b.d)

\* a / b, for b # 0
RatDiv(a, b) == Rat(a.n * b.d, a.d * b.n)

\* a / b instead of a / b ** 2
RatDivOnce(a, b) == RatDiv(a, b)

\* a / b ** 2 for b # 0, divided in two steps so that the intermediate
\* products stay within TLC's 32-bit integers
RatDivSq(a, b) == RatDiv(RatDiv(a, b), b)

RatLt(a, b) == a.n * b.d < b.n * a.d

RatAbs(a) == [n |-> Abs(a.n), d |-> a.d]

RECURSIVE SqrtSearch(_, _, _)
SqrtSearch(v, lo, hi) ==
    IF lo = hi THEN lo
    ELSE LET mid == (lo + hi + 1) \div 2
         IN  IF mid * mid <= v THEN SqrtSearch(v, mid, hi)
                               ELSE SqrtSearch(v, lo, mid - 1)

\* floor of the square root of a natural number
ISqrt(v) == SqrtSearch(v, 0, IF v < 46340 THEN v ELSE 46340)

\* thousandths in a unit: lengths are accumulated as integers of this unit
Milli == 1000

\* np.sqrt / math.sqrt of a natural number, in thousandths: exact for a
\* perfect square, otherwise cut (floor)
np_sqrt(v) ==
    LET r == ISqrt(v)
    IN  IF r * r = v THEN r * Milli ELSE ISqrt(v * Milli * Milli)

Reverse(s) == [i \in 1..Len(s) |-> s[Len(s) + 1 - i]]

(***************************************************************************)
(* Geometry: image_processor.py, area_calculator.py, property_detector.py  *)
(***************************************************************************)
\* cv2.contourArea(contour) with oriented=False: half the absolute value of
\* the running cross-product sum, each point taken against its predecessor,
\* the first against the last.  Zero for an empty contour.
RECURSIVE contourAreaLoop(_, _, _, _)
contourAreaLoop(contour, i, prev, a00) ==
    IF i > Len(contour) THEN a00
    ELSE LET p == contour[i]
         IN  contourAreaLoop(contour, i + 1, p,
                             a00 + prev[1] * p[2] - prev[2] * p[1])

contourAreaSigned(contour) ==
    IF Len(contour) = 0 THEN Zero
    ELSE Rat(contourAreaLoop(contour, 1, contour[Len(contour)], 0), 2)

contourArea(contour) == RatAbs(contourAreaSigned(contour))

RECURSIVE line_length_loop(_, _, _)
line_length_loop(contour, i, length) ==
    IF i > Len(contour) THEN length
    ELSE LET pt1 == contour[i]
             pt2 == contour[(i % Len(contour)) + 1]
             d2  == (pt2[1] - pt1[1]) * (pt2[1] - pt1[1])
                  + (pt2[2] - pt1[2]) * (pt2[2] - pt1[2])
         IN  line_length_loop(contour, i + 1, length + np_sqrt(d2))

\* the loop of calculate_line_length stopping one short: no edge back to the
\* first point
RECURSIVE line_length_open(_, _, _)
line_length_open(contour, i, length) ==
    IF i >= Len(contour) THEN length
    ELSE LET pt1 == contour[i]
             pt2 == contour[i + 1]
             d2  == (pt2[1] - pt1[1]) * (pt2[1] - pt1[1])
                  + (pt2[2] - pt1[2]) * (pt2[2] - pt1[2])
         IN  line_length_open(contour, i + 1, length + np_sqrt(d2))

calculate_line_length_nowrap(contour) ==
    IF Len(contour) < 2 THEN Zero ELSE Rat(line_length_open(contour, 1, 0), Milli)

\* ImageMeasurementProcessor.calculate_line_length
calculate_line_length(contour) ==
    IF Len(contour) < 2 THEN Zero ELSE Rat(line_length_loop(contour, 1, 0), Milli)

\* AreaCalculator.calculate_perimeter
calculate_perimeter(points) ==
    IF Len(points) < 2 THEN Zero ELSE Rat(line_length_loop(points, 1, 0), Milli)

\* calculate_area without the abs(): the signed area
calculate_area_signed(contour) ==
    IF Len(contour) < 3 THEN Zero ELSE contourAreaSigned(contour)

\* ImageMeasurementProcessor.calculate_area
calculate_area(contour) ==
    IF Len(contour) < 3 THEN Zero ELSE RatAbs(contourArea(contour))

\* PropertyDetector.calculate_garden_area
calculate_garden_area(manual_points) ==
    IF Len(manual_points) < 3 THEN Zero ELSE RatAbs(contourArea(manual_points))

(***************************************************************************)
(* Manual calibration: scale_detector.py, area_calculator.py               *)
(***************************************************************************)
Value(v) == [kind |-> "return", val |-> v]

Raise(exc, msg) == [kind |-> "raise", exc |-> exc, msg |-> msg]

\* the unit strings a caller may send
UnitStrings ==
    {"meters", "feet", "yards", "inches", "cm", "mm",
     "m", "ft", "inch",
     "Meters", "FEET", "Yards", "CM",
     "parsecs"}

\* str.lower() on the strings of UnitStrings
lower(unit) ==
    CASE unit = "Meters" -> "meters"
      [] unit = "FEET" -> "feet"
      [] unit = "Yards" -> "yards"
      [] unit = "CM" -> "cm"
      [] OTHER -> unit

\* ScaleDetector.manual_scale_input: the scale factor, or None
manual_scale_input(pixel_length, real_length, unit) ==
    LET real_length_m ==
            CASE unit = "cm" -> Rat(real_length, 100)
              [] unit = "mm" -> Rat(real_length, 1000)
              [] unit \in {"m", "meter", "meters"} -> Rat(real_length, 1)
              [] unit \in {"ft", "feet"} -> RatMul(Rat(real_length, 1), Rat(3048, 10000))
              [] unit \in {"in", "inch"} -> RatMul(Rat(real_length, 1), Rat(254, 10000))
              [] OTHER -> Rat(real_length, 1)
    IN  IF RatLt(Zero, real_length_m)
        THEN Value(Some(RatDiv(Rat(pixel_length, 1), real_length_m)))
        ELSE Value(None)

\* the table unit_to_meters of calculate_scale_from_reference
unit_to_meters ==
    [meters |-> Rat(1, 1), feet |-> Rat(3048, 10000), yards |-> Rat(9144, 10000),
     inches |-> Rat(254, 10000), cm |-> Rat(1, 100), mm |-> Rat(1, 1000)]

\* AreaCalculator.calculate_scale_from_reference
calculate_scale_from_reference(reference_pixel_length, reference_real_length, unit) ==
    IF lower(unit) \notin DOMAIN unit_to_meters
    THEN Raise("ValueError", "Unknown unit: " \o unit)
    ELSE LET real_length_meters ==
                 RatMul(Rat(reference_real_length, 1), unit_to_meters[lower(unit)])
         IN  IF real_length_meters = Zero
             THEN Raise("ValueError", "Reference length cannot be zero")
             ELSE Value(Some(RatDiv(Rat(reference_pixel_length, 1), real_length_meters)))

\* truth value of an optional number (None and 0 are false)
Truthy(o) == o # None /\ o[1] # 0

\* truth value of an optional scale factor
TruthyRat(o) == o # None /\ o[1].n # 0

(***************************************************************************)
(* Unit conversions of AreaCalculator.                                     *)
(***************************************************************************)
RECURSIVE Pow10(_)
Pow10(k) == IF k = 0 THEN 1 ELSE 10 * Pow10(k - 1)

\* the integer nearest to n / d for n >= 0 and d > 0, a tie going to the
\* even neighbour
RoundHalfEven(n, d) ==
    LET q == n \div d
        r == n % d
    IN  IF 2 * r > d \/ (2 * r = d /\ q % 2 = 1) THEN q + 1 ELSE q

\* round(x * f, ndigits); common factors are cancelled before multiplying
\* so that the products stay within TLC's 32-bit integers
round_product(x, f, ndigits) ==
    LET p  == Pow10(ndigits)
        g  == GCD(p, f.d)
        fp == Rat(f.n * (p \div g), f.d \div g)
        g1 == GCD(Abs(x.n), fp.d)
        g2 == GCD(Abs(fp.n), x.d)
        n  == (Abs(x.n) \div g1) * (Abs(fp.n) \div g2)
        d  == (x.d \div g2) * (fp.d \div g1)
        sign == IF (x.n < 0) # (fp.n < 0) THEN -1 ELSE 1
    IN  Rat(sign * RoundHalfEven(n, d), p)

\* round(x, ndigits)
round(x, ndigits) == round_product(x, Rat(1, 1), ndigits)

\* AreaCalculator.CONVERSIONS
CONVERSIONS ==
    [sq_meters |-> Rat(1, 1), sq_feet |-> Rat(10764, 1000),
     acres |-> Rat(247105, 1000000000), sq_pixels |-> Zero]

\* convert_to_all_units with the acres rounded to 2 decimals like the rest
convert_to_all_units_2dp(area_sq_meters) ==
    [sq_meters |-> round(area_sq_meters, 2),
     sq_feet |-> round_product(area_sq_meters, CONVERSIONS.sq_feet, 2),
     acres |-> round_product(area_sq_meters, CONVERSIONS.acres, 2)]

\* AreaCalculator.convert_to_all_units
convert_to_all_units(area_sq_meters) ==
    [sq_meters |-> round(area_sq_meters, 2),
     sq_feet |-> round_product(area_sq_meters, CONVERSIONS.sq_feet, 2),
     acres |-> round_product(area_sq_meters, CONVERSIONS.acres, 4)]

\* the conversions of convert_distance applied to a distance in meters
distance_conversions(distance_meters) ==
    [meters |-> round(distance_meters, 2),
     feet |-> round_product(distance_meters, Rat(328084, 100000), 2),
     yards |-> round_product(distance_meters, Rat(109361, 100000), 2),
     miles |-> round_product(distance_meters, Rat(621371, 1000000000), 2)]

\* convert_distance taking its argument as meters whatever the scale
convert_distance_meters(pixels_per_meter, distance_pixels, unit) ==
    distance_conversions(distance_pixels)

\* AreaCalculator.convert_distance of a calculator whose pixels_per_meter
\* is None or a number
convert_distance(pixels_per_meter, distance_pixels, unit) ==
    IF ~TruthyRat(pixels_per_meter)
    THEN [pixels |-> distance_pixels]
    ELSE LET distance_meters == RatDiv(distance_pixels, pixels_per_meter[1])
         IN  distance_conversions(distance_meters)

(***************************************************************************)
(* Number formatting.                                                      *)
(***************************************************************************)
Digit == <<"0", "1", "2", "3", "4", "5", "6", "7", "8", "9">>

RECURSIVE NatStr(_)
NatStr(k) ==
    IF k < 10 THEN <<Digit[k + 1]>>
    ELSE NatStr(k \div 10) \o <<Digit[(k % 10) + 1]>>

\* |x| in hundredths, rounded half to even
Hundredths(x) ==
    LET num == Abs(x.n) * 100
        q   == num \div x.d
        r   == num % x.d
    IN  IF 2 * r > x.d \/ (2 * r = x.d /\ q % 2 = 1) THEN q + 1 ELSE q

\* the number formatted with one digit after the point only
Format1(x) ==
    LET h == Hundredths(x)
    IN  (IF x.n < 0 THEN <<"-">> ELSE << >>)
        \o NatStr(h \div 100) \o <<".">>
        \o <<Digit[((h % 100) \div 10) + 1]>>

\* f"{x:.2f}"
Format2(x) ==
    LET h == Hundredths(x)
    IN  (IF x.n < 0 THEN <<"-">> ELSE << >>)
        \o NatStr(h \div 100) \o <<".">>
        \o <<Digit[((h % 100) \div 10) + 1], Digit[(h % 10) + 1]>>

\* str(x) of a float holding an integer
FloatStr(k) == (IF k < 0 THEN "-" ELSE "") \o ToString(Abs(k)) \o ".0"

RECURSIVE Join(_, _)
\* " ".join(notes_list)
Join(notes_list, i) ==
    IF i > Len(notes_list) THEN ""
    ELSE IF i = Len(notes_list) THEN notes_list[i]
    ELSE notes_list[i] \o " " \o Join(notes_list, i + 1)

(***************************************************************************)
(* Detection and closure: image_processor.py                               *)
(***************************************************************************)
\* An image is the sequence of its foreground regions after gap closing,
\* each a filled axis-aligned rectangle <<x, y, w, h>> (w, h >= 1: the
\* extent of its outer boundary).  cv2.findContours(RETR_EXTERNAL,
\* CHAIN_APPROX_NONE) gives one contour per region: every boundary pixel,
\* neighbour after neighbour, from the top-left corner.
RectContour(r) ==
    LET x == r[1]
        y == r[2]
        w == r[3]
        h == r[4]
    IN  [i \in 1..(2 * (w + h)) |->
            IF i <= h THEN <<x, y + i - 1>>
            ELSE IF i <= h + w THEN <<x + (i - h - 1), y + h>>
            ELSE IF i <= 2 * h + w THEN <<x + w, y + h - (i - h - w - 1)>>
            ELSE <<x + w - (i - 2 * h - w - 1), y>>]

findContours(image) == [i \in 1..Len(image) |-> RectContour(image[i])]

\* the noise filter of detect_drawn_lines
min_area == 50

\* a filter that keeps a contour of area exactly min_area
IsLargeEnoughInclusive(cnt) == ~RatLt(contourArea(cnt), Rat(min_area, 1))

IsLargeEnough(cnt) == RatLt(Rat(min_area, 1), contourArea(cnt))

\* ImageMeasurementProcessor.detect_drawn_lines, from the contours on
detect_drawn_lines(image) == SelectSeq(findContours(image), IsLargeEnough)

\* max(contours, key=cv2.contourArea) keeping the last of the largest
RECURSIVE max_loop_last(_, _, _)
max_loop_last(contours, i, best) ==
    IF i > Len(contours) THEN best
    ELSE IF ~RatLt(contourArea(contours[i]), contourArea(contours[best]))
         THEN max_loop_last(contours, i + 1, i)
         ELSE max_loop_last(contours, i + 1, best)

max_by_area_last(contours) == contours[max_loop_last(contours, 2, 1)]

\* max(contours, key=cv2.contourArea): Python's max keeps the first of the
\* largest
RECURSIVE max_loop(_, _, _)
max_loop(contours, i, best) ==
    IF i > Len(contours) THEN best
    ELSE IF RatLt(contourArea(contours[best]), contourArea(contours[i]))
         THEN max_loop(contours, i + 1, i)
         ELSE max_loop(contours, i + 1, best)

max_by_area(contours) == contours[max_loop(contours, 2, 1)]

\* the default of is_contour_closed's threshold
default_threshold == 5

\* is_contour_closed with a distance equal to the threshold taken as closed
is_contour_closed_inclusive(contour, threshold) ==
    IF Len(contour) < 3 THEN FALSE
    ELSE LET first_point == contour[1]
             last_point  == contour[Len(contour)]
             distance == np_sqrt(
                 (last_point[1] - first_point[1]) * (last_point[1] - first_point[1])
               + (last_point[2] - first_point[2]) * (last_point[2] - first_point[2]))
         IN  distance <= threshold * Milli

\* ImageMeasurementProcessor.is_contour_closed
is_contour_closed(contour, threshold) ==
    IF Len(contour) < 3 THEN FALSE
    ELSE LET first_point == contour[1]
             last_point  == contour[Len(contour)]
             distance == np_sqrt(
                 (last_point[1] - first_point[1]) * (last_point[1] - first_point[1])
               + (last_point[2] - first_point[2]) * (last_point[2] - first_point[2]))
         IN  distance < threshold * Milli

\* the number of dimensions of a contour of cv2.findContours, an array of
\* shape (n, 1, 2): contour[i][0] is the point, contour[i] has shape (1, 2)
cv_contour_ndim == 3

\* the number of dimensions of np.array(points), an array of shape (n, 2)
points_ndim == 2

\* np.vstack([a, b]) on arrays of a_ndim and b_ndim dimensions with equal
\* trailing sizes: arrays of fewer than 2 dimensions become rows, then the
\* arrays are concatenated along axis 0, which requires equal dimensions
np_vstack(a, a_ndim, b, b_ndim) ==
    LET atleast_2d(ndim) == IF ndim < 2 THEN 2 ELSE ndim
    IN  IF atleast_2d(a_ndim) = atleast_2d(b_ndim)
        THEN Value(Append(a, b))
        ELSE Raise("ValueError",
                   "all the input arrays must have same number of dimensions")

\* ImageMeasurementProcessor.auto_close_contour on an array of ndim
\* dimensions; contour[0] has one dimension fewer than contour
auto_close_contour(contour, ndim) ==
    IF Len(contour) = 0 THEN Value(contour)
    ELSE LET first_point == contour[1]
         IN  np_vstack(contour, ndim, first_point, ndim - 1)

\* a method that reads contour[i][0][k] on an array of ndim dimensions:
\* on an (n, 2) array contour[i][0] is a scalar and indexing it raises;
\* reached tells whether the call gets as far as reading a point
indexed_points(ndim, reached, result) ==
    IF reached /\ ndim # cv_contour_ndim
    THEN Raise("IndexError", "invalid index to scalar variable.")
    ELSE Value(result)

\* a detect_scale_reference that finds 10 pixels per meter
detect_scale_reference_found(image, contours) == Some(Rat(10, 1))

\* ImageMeasurementProcessor.detect_scale_reference
detect_scale_reference(image, contours) == None

\* ScaleDetector.detect_scale_label, a placeholder
detect_scale_label(image) == None

\* ScaleDetector.detect_ruler, a placeholder
detect_ruler(image) == None

\* ScaleDetector.detect_reference_line: the loop over the contours computes
\* measures and passes, then None is returned
detect_reference_line(image, contours) == None

\* ScaleDetector.detect_scale: the first detector with a truthy result
\* decides; a label result is a pair (pixels_per_unit, unit), converted to
\* pixels per meter for the two units that keep the factor a whole number
detect_scale(image, contours) ==
    LET label_result == detect_scale_label(image)
        ruler_result == detect_ruler(image)
        ref_line_result == detect_reference_line(image, contours)
    IN  IF label_result # None /\ label_result[1].unit = "cm"
          THEN Some(RatMul(label_result[1].pixels_per_unit, Rat(100, 1)))
        ELSE IF label_result # None /\ label_result[1].unit = "mm"
          THEN Some(RatMul(label_result[1].pixels_per_unit, Rat(1000, 1)))
        ELSE IF label_result # None /\ label_result[1].unit \in {"m", "meter", "meters"}
          THEN Some(label_result[1].pixels_per_unit)
        ELSE IF TruthyRat(ruler_result) THEN ruler_result
        ELSE IF TruthyRat(ref_line_result) THEN ref_line_result
        ELSE None

(***************************************************************************)
(* HTTP handlers: api.py                                                   *)
(***************************************************************************)
JSONResponse(content) == Value([status_code |-> 200, content |-> content])

HTTPException(status_code, detail) ==
    [kind |-> "raise", exc |-> "HTTPException", status_code |-> status_code,
     detail |-> detail]

AutoCloseNote == "Boundary was open and was auto-closed."

SegmentsNote(n) ==
    "Detected " \o ToString(n)
    \o " separate line segments. Using the largest as main boundary."

ScaleNote(reference_length, reference_unit, reference_pixels) ==
    "Scale applied: " \o FloatStr(reference_length) \o " " \o reference_unit
    \o " = " \o FloatStr(reference_pixels) \o " pixels"

NoLinesNote == "No drawn lines detected in the image."

\* the notes with the closing note put first
NotesOfLastFirst(is_closed, contours, last) ==
    last
    \o (IF ~is_closed THEN <<AutoCloseNote>> ELSE << >>)
    \o (IF Len(contours) > 1 THEN <<SegmentsNote(Len(contours))>> ELSE << >>)

NotesOf(is_closed, contours, last) ==
    (IF ~is_closed THEN <<AutoCloseNote>> ELSE << >>)
    \o (IF Len(contours) > 1 THEN <<SegmentsNote(Len(contours))>> ELSE << >>)
    \o last

\* the unit of measure_with_scale's no-contour response, always "pixels"
no_contours_unit_pixels(reference_pixels) == "pixels"

\* the unit of measure_with_scale's no-contour response (api.py line 293)
no_contours_unit(reference_pixels) ==
    IF Truthy(reference_pixels) THEN "meters" ELSE "pixels"

\* the except-clause of the image handlers: every exception, the handler's
\* own HTTPException included, leaves as a 500 whose detail carries the
\* prefix and the text of the cause
Wrapped500(prefix, cause) ==
    HTTPException(500, [prefix |-> prefix, cause |-> cause])

DecodeFailure ==
    [status_code |-> 400, detail |-> "Could not decode image file"]

\* ImageMeasurementProcessor.process_image_array: [result, frame]
process_image_array(image_array) ==
    LET contours == detect_drawn_lines(image_array)
    IN  IF Len(contours) = 0
        THEN [result |-> Value([line_length |-> <<"0">>, area |-> <<"0">>,
                                unit |-> "pixels", notes |-> NoLinesNote]),
              frame |-> [at |-> "no_contours", contours |-> contours]]
        ELSE
        LET main_contour == max_by_area(contours)
            is_closed == is_contour_closed(main_contour, default_threshold)
            closing == IF ~is_closed
                       THEN auto_close_contour(main_contour, cv_contour_ndim)
                       ELSE Value(main_contour)
        IN  IF closing.kind = "raise"
            THEN [result |-> closing,
                  frame |-> [at |-> "auto_close_failed", contours |-> contours,
                             main_contour |-> main_contour, is_closed |-> is_closed]]
            ELSE
        LET measured == closing.val
            line_length == calculate_line_length(measured)
            area == calculate_area(measured)
            scale_factor == detect_scale_reference(image_array, contours)
            scaled == TruthyRat(scale_factor)
            notes_list ==
                NotesOf(is_closed, contours,
                        IF scaled THEN << >>
                        ELSE <<"No reference scale detected. Measurements in pixels only.">>)
            line_length_out == IF scaled THEN RatDiv(line_length, scale_factor[1])
                                         ELSE line_length
            area_out == IF scaled
                        THEN RatDivSq(area, scale_factor[1])
                        ELSE area
        IN  [result |-> Value(
                            [line_length |-> Format2(line_length_out),
                             area |-> Format2(area_out),
                             unit |-> IF scaled THEN "meters" ELSE "pixels",
                             notes |-> IF Len(notes_list) > 0 THEN Join(notes_list, 1)
                                       ELSE "Processing completed successfully."]),
             frame |-> [at |-> IF scaled THEN "scaled" ELSE "pixels",
                        contours |-> contours, main_contour |-> main_contour,
                        is_closed |-> is_closed, measured |-> measured,
                        line_length_px |-> line_length, area_px |-> area,
                        scale_factor |-> scale_factor, notes_list |-> notes_list]]

\* a measure_image that hands an undecoded image to the pipeline as an empty
\* pixel matrix
measure_image_undecoded(image) ==
    LET r == process_image_array(IF image = None THEN << >> ELSE image[1])
    IN  [ret |-> IF r.result.kind = "raise"
                 THEN Wrapped500("Error processing image: ", r.result)
                 ELSE JSONResponse(r.result.val),
         frame |-> r.frame]

\* POST /api/measure: [ret, frame]; image is None when cv2.imdecode failed
measure_image(image) ==
    IF image = None
    THEN [ret |-> Wrapped500("Error processing image: ", DecodeFailure),
          frame |-> [at |-> "decode_failed"]]
    ELSE LET r == process_image_array(image[1])
         IN  [ret |-> IF r.result.kind = "raise"
                      THEN Wrapped500("Error processing image: ", r.result)
                      ELSE JSONResponse(r.result.val),
              frame |-> r.frame]

\* POST /api/measure-with-scale: [ret, frame]
measure_with_scale(image, reference_pixels, reference_length, reference_unit) ==
    IF image = None
    THEN [ret |-> Wrapped500("Error processing image: ", DecodeFailure),
          frame |-> [at |-> "decode_failed"]]
    ELSE
    LET contours == detect_drawn_lines(image[1])
    IN  IF Len(contours) = 0
        THEN [ret |-> JSONResponse(
                          [line_length |-> <<"0">>, area |-> <<"0">>,
                           unit |-> no_contours_unit(reference_pixels),
                           notes |-> NoLinesNote]),
              frame |-> [at |-> "no_contours", contours |-> contours]]
        ELSE
        LET main_contour == max_by_area(contours)
            is_closed == is_contour_closed(main_contour, default_threshold)
            closing == IF ~is_closed
                       THEN auto_close_contour(main_contour, cv_contour_ndim)
                       ELSE Value(main_contour)
        IN  IF closing.kind = "raise"
            THEN [ret |-> Wrapped500("Error processing image: ", closing),
                  frame |-> [at |-> "auto_close_failed", contours |-> contours,
                             main_contour |-> main_contour, is_closed |-> is_closed]]
            ELSE
        LET measured == closing.val
            line_length_px == calculate_line_length(measured)
            area_px == calculate_area(measured)
            given == Truthy(reference_pixels) /\ Truthy(reference_length)
            scale_factor ==
                IF given
                THEN manual_scale_input(reference_pixels[1], reference_length[1],
                                        reference_unit).val
                ELSE None
            scaled == given /\ TruthyRat(scale_factor)
            notes_list ==
                NotesOf(is_closed, contours,
                        IF scaled
                        THEN <<ScaleNote(reference_length[1], reference_unit,
                                         reference_pixels[1])>>
                        ELSE <<"No reference scale provided. Measurements in pixels only.">>)
            line_length_out == IF scaled THEN RatDiv(line_length_px, scale_factor[1])
                                         ELSE line_length_px
            area_out == IF scaled
                        THEN RatDivSq(area_px, scale_factor[1])
                        ELSE area_px
        IN  [ret |-> JSONResponse(
                         [line_length |-> Format2(line_length_out),
                          area |-> Format2(area_out),
                          unit |-> IF scaled THEN "meters" ELSE "pixels",
                          notes |-> Join(notes_list, 1)]),
             frame |-> [at |-> IF scaled THEN "scaled" ELSE "pixels",
                        contours |-> contours, main_contour |-> main_contour,
                        is_closed |-> is_closed, measured |-> measured,
                        line_length_px |-> line_length_px, area_px |-> area_px,
                        scale_factor |-> scale_factor, notes_list |-> notes_list]]

\* np.allclose(a, b) on two points with integer coordinates below 10^5 in
\* size: the tolerance 1e-8 + 1e-5 * |b| stays under 1
allclose(a, b) == a = b

\* POST /api/measure-coordinates: [ret, frame]
measure_coordinates(points, reference_pixels, reference_length, reference_unit) ==
    IF Len(points) < 2
    THEN [ret |-> HTTPException(400, "At least two points are required."),
          frame |-> [at |-> "too_few_points"]]
    ELSE
    LET is_closed == allclose(points[1], points[Len(points)])
        measured == IF ~is_closed
                    THEN np_vstack(points, points_ndim, points[1], points_ndim - 1).val
                    ELSE points
        line_length_px == calculate_line_length(measured)
        area_px == calculate_area(measured)
        given == Truthy(reference_pixels) /\ Truthy(reference_length)
        scale_factor ==
            IF given
            THEN manual_scale_input(reference_pixels[1], reference_length[1],
                                    reference_unit).val
            ELSE None
        scaled == given /\ TruthyRat(scale_factor)
        notes_list ==
            (IF ~is_closed THEN <<AutoCloseNote>> ELSE << >>)
            \o (IF scaled
                THEN <<ScaleNote(reference_length[1], reference_unit,
                                 reference_pixels[1])>>
                ELSE <<"No reference scale provided. Measurements in pixels only.">>)
        line_length_out == IF scaled THEN RatDiv(line_length_px, scale_factor[1])
                                     ELSE line_length_px
        area_out == IF scaled
                    THEN RatDivSq(area_px, scale_factor[1])
                    ELSE area_px
    IN  [ret |-> JSONResponse(
                     [line_length |-> Format2(line_length_out),
                      area |-> Format2(area_out),
                      unit |-> IF scaled THEN "meters" ELSE "pixels",
                      notes |-> Join(notes_list, 1)]),
         frame |-> [at |-> IF scaled THEN "scaled" ELSE "pixels",
                    is_closed |-> is_closed, measured |-> measured,
                    line_length_px |-> line_length_px, area_px |-> area_px,
                    scale_factor |-> scale_factor, notes_list |-> notes_list]]

\* POST /api/measure-zones: [ret, frame]
measure_zones(points, zone_type, request_pixels_per_meter, reference_pixels, reference_length, reference_unit) ==
    IF Len(points) < 3
    THEN [ret |-> HTTPException(400, "At least 3 points required for area calculation"),
          frame |-> [at |-> "too_few_points"]]
    ELSE
    LET area_px == contourArea(points)
        perimeter_px == calculate_line_length(points)
        scale ==
            IF Truthy(request_pixels_per_meter)
            THEN Value(Some(Rat(request_pixels_per_meter[1], 1)))
            ELSE IF Truthy(reference_pixels) /\ Truthy(reference_length)
                 THEN calculate_scale_from_reference(
                          reference_pixels[1], reference_length[1], reference_unit)
                 ELSE Value(None)
    IN  IF scale.kind = "raise"
        THEN [ret |-> Wrapped500("Error measuring zones: ", scale),
              frame |-> [at |-> "scale_failed", area_px |-> area_px,
                         perimeter_px |-> perimeter_px]]
        ELSE
        LET pixels_per_meter == scale.val
        IN  IF TruthyRat(pixels_per_meter)
            THEN LET area_sq_m == RatDivSq(area_px, pixels_per_meter[1])
                     all_units == convert_to_all_units(area_sq_m)
                     perimeter_units ==
                         convert_distance(pixels_per_meter, perimeter_px, "meters")
                 IN  [ret |-> JSONResponse(
                                  [zone_type |-> zone_type,
                                   area |-> all_units,
                                   perimeter |-> perimeter_units,
                                   pixels_per_meter |-> pixels_per_meter[1],
                                   area_sq_pixels |-> round(area_px, 2),
                                   perimeter_pixels |-> round(perimeter_px, 2)]),
                      frame |-> [at |-> "scaled", area_px |-> area_px,
                                 perimeter_px |-> perimeter_px,
                                 pixels_per_meter |-> pixels_per_meter]]
            ELSE [ret |-> JSONResponse(
                              [zone_type |-> zone_type,
                               area_sq_pixels |-> round(area_px, 2),
                               perimeter_pixels |-> round(perimeter_px, 2),
                               note |-> "No scale provided. Measurements in pixels only."]),
                  frame |-> [at |-> "pixels", area_px |-> area_px,
                             perimeter_px |-> perimeter_px,
                             pixels_per_meter |-> pixels_per_meter]]

(***************************************************************************)
(* Inputs of the pure geometry functions.                                  *)
(***************************************************************************)
Points == (0..MaxCoord) \X (0..MaxCoord)

Polygons == UNION {[1..n -> Points] : n \in 0..MaxPts}

Pending == [kind |-> "pending"]

NoFrame == [op |-> "none"]

GeometryOps ==
    {"calculate_line_length", "calculate_perimeter", "calculate_area",
     "calculate_garden_area"}

\* the 4 corners of the axis-aligned square of side s at <<x, y>>
SquareAt(x, y, s) == <<<<x, y>>, <<x + s, y>>, <<x + s, y + s>>, <<x, y + s>>>>

\* the point sequence p started k points later
Rotate(p, k) == [i \in 1..Len(p) |-> p[((i + k - 1) % Len(p)) + 1]]

\* the squares of side s, from any corner, in either direction
SquaresOfSide(s) ==
    UNION {{Rotate(SquareAt(x, y, s), k), Reverse(Rotate(SquareAt(x, y, s), k))} :
           x \in 0..MaxCoord, y \in 0..MaxCoord, k \in 0..3}

Squares == UNION {SquaresOfSide(s) : s \in 1..MaxSide}

GeometryCalls == [op : GeometryOps, contour : Polygons \cup Squares]

PixelLengths == {-100, 0, 100, 150, 600}

RealLengths == {-10, 0, 5, 10}

CalibrationOps == {"manual_scale_input", "calculate_scale_from_reference"}

CalibrationCalls ==
    [op : CalibrationOps, pixel_length : PixelLengths,
     real_length : RealLengths, unit : UnitStrings]

\* the foreground regions an image may hold: <<x, y, w, h>>
Regions ==
    {<<0, 0, 10, 10>>, <<20, 0, 5, 20>>, <<0, 30, 5, 10>>, <<40, 40, 12, 10>>}

Images == UNION {[1..n -> Regions] : n \in 0..MaxRegions}

OptImages == {None} \cup {Some(image) : image \in Images}

ReferencePixels == {None, Some(0), Some(-100), Some(100), Some(60), Some(600)}

ReferenceLengths == {None, Some(0), Some(-10), Some(10)}

\* the point lists sent to /api/measure-coordinates
CoordinateLists ==
    {<< >>,
     <<<<0, 0>>>>,
     <<<<0, 0>>, <<3, 4>>>>,
     <<<<0, 0>>, <<6, 0>>, <<6, 4>>, <<0, 4>>>>,
     <<<<0, 0>>, <<6, 0>>, <<6, 4>>, <<0, 4>>, <<0, 0>>>>,
     <<<<0, 0>>, <<0, 4>>, <<6, 4>>, <<6, 0>>>>,
     <<<<0, 0>>, <<30, 0>>, <<0, 40>>>>,
     <<<<100, 100>>, <<700, 100>>, <<700, 500>>, <<100, 500>>, <<100, 100>>>>}

\* the reference units sent to the measuring handlers
ReferenceUnits == {"meters", "feet", "yards", "cm", "FEET", "parsecs"}

MeasureImageCalls == [op : {"measure_image"}, image : OptImages]

MeasureWithScaleCalls ==
    [op : {"measure_with_scale"}, image : OptImages,
     reference_pixels : ReferencePixels, reference_length : ReferenceLengths,
     reference_unit : ReferenceUnits]

MeasureCoordinatesCalls ==
    [op : {"measure_coordinates"}, points : CoordinateLists,
     reference_pixels : ReferencePixels, reference_length : ReferenceLengths,
     reference_unit : ReferenceUnits]

MeasuringOps == {"measure_image", "measure_with_scale", "measure_coordinates"}

DetectScaleOps == {"detect_scale_reference", "detect_scale"}

\* scale detection on an image and the contours detected in it
DetectScaleCalls == [op : DetectScaleOps, image : Images]

Calls ==
    GeometryCalls \cup CalibrationCalls \cup MeasureImageCalls
    \cup MeasureWithScaleCalls \cup MeasureCoordinatesCalls
    \cup DetectScaleCalls

\* A behaviour is one call: the request is chosen at the start, the one
\* action that serves it runs to its return.
Init ==
    /\ call \in Calls
    /\ ret = Pending
    /\ frame = NoFrame

CalculateLineLength ==
    /\ call.op = "calculate_line_length" /\ ret = Pending
    /\ ret' = Value(calculate_line_length(call.contour))
    /\ UNCHANGED <<call, frame>>

CalculatePerimeter ==
    /\ call.op = "calculate_perimeter" /\ ret = Pending
    /\ ret' = Value(calculate_perimeter(call.contour))
    /\ UNCHANGED <<call, frame>>

CalculateArea ==
    /\ call.op = "calculate_area" /\ ret = Pending
    /\ ret' = Value(calculate_area(call.contour))
    /\ UNCHANGED <<call, frame>>

CalculateGardenArea ==
    /\ call.op = "calculate_garden_area" /\ ret = Pending
    /\ ret' = Value(calculate_garden_area(call.contour))
    /\ UNCHANGED <<call, frame>>

ManualScaleInput ==
    /\ call.op = "manual_scale_input" /\ ret = Pending
    /\ ret' = manual_scale_input(call.pixel_length, call.real_length, call.unit)
    /\ UNCHANGED <<call, frame>>

CalculateScaleFromReference ==
    /\ call.op = "calculate_scale_from_reference" /\ ret = Pending
    /\ ret' = calculate_scale_from_reference(call.pixel_length, call.real_length,
                                              call.unit)
    /\ UNCHANGED <<call, frame>>

DetectScaleReference ==
    /\ call.op = "detect_scale_reference" /\ ret = Pending
    /\ ret' = Value(detect_scale_reference(call.image, detect_drawn_lines(call.image)))
    /\ UNCHANGED <<call, frame>>

DetectScale ==
    /\ call.op = "detect_scale" /\ ret = Pending
    /\ ret' = Value(detect_scale(call.image, detect_drawn_lines(call.image)))
    /\ UNCHANGED <<call, frame>>

MeasureImage ==
    /\ call.op = "measure_image" /\ ret = Pending
    /\ LET r == measure_image(call.image)
       IN  ret' = r.ret /\ frame' = r.frame
    /\ UNCHANGED call

MeasureWithScale ==
    /\ call.op = "measure_with_scale" /\ ret = Pending
    /\ LET r == measure_with_scale(call.image, call.reference_pixels,
                                   call.reference_length, call.reference_unit)
       IN  ret' = r.ret /\ frame' = r.frame
    /\ UNCHANGED call

MeasureCoordinates ==
    /\ call.op = "measure_coordinates" /\ ret = Pending
    /\ LET r == measure_coordinates(call.points, call.reference_pixels,
                                    call.reference_length, call.reference_unit)
       IN  ret' = r.ret /\ frame' = r.frame
    /\ UNCHANGED call

Next ==
    \/ MeasureImage
    \/ MeasureWithScale
    \/ MeasureCoordinates
    \/ ManualScaleInput
    \/ CalculateScaleFromReference
    \/ CalculateLineLength
    \/ CalculatePerimeter
    \/ CalculateArea
    \/ CalculateGardenArea
    \/ DetectScaleReference
    \/ DetectScale

Spec == Init /\ [][Next]_vars

(***************************************************************************)
(* The closure methods of ImageMeasurementProcessor, called by a client    *)
(* that holds one contour array: frame is the client's array (its points,  *)
(* its number of dimensions, the points it started from and the number of  *)
(* closings that returned), call is the latest call and ret its outcome.   *)
(***************************************************************************)
\* points with first-to-last distances of 0, 1, 5 and 10 among them
ClosurePoints == {<<0, 0>>, <<1, 0>>, <<3, 4>>, <<6, 8>>}

ClosureContours == UNION {[1..n -> ClosurePoints] : n \in 0..MaxPts}

\* the (n, 2) and the (n, 1, 2) layout of a contour
ArrayNdims == {points_ndim, cv_contour_ndim}

\* thresholds passed to is_contour_closed, its default among them
Thresholds == {1, default_threshold, 10}

NoCall == [op |-> "none"]

ClosureInit ==
    /\ call = NoCall
    /\ ret = Pending
    /\ frame \in {[origin |-> c, contour |-> c, ndim |-> d, closes |-> 0] :
                   c \in ClosureContours, d \in ArrayNdims}

ClosureIsContourClosed ==
    \E threshold \in Thresholds :
        /\ call' = [op |-> "is_contour_closed", contour |-> frame.contour,
                    ndim |-> frame.ndim, threshold |-> threshold]
        /\ ret' = indexed_points(frame.ndim, Len(frame.contour) >= 3,
                                 is_contour_closed(frame.contour, threshold))
        /\ UNCHANGED frame

ClosureAutoCloseContour ==
    /\ frame.closes < MaxCloses
    /\ LET closed_contour == auto_close_contour(frame.contour, frame.ndim)
       IN  /\ call' = [op |-> "auto_close_contour", contour |-> frame.contour,
                       ndim |-> frame.ndim]
           /\ ret' = closed_contour
           /\ frame' = IF closed_contour.kind = "return"
                       THEN [frame EXCEPT !.contour = closed_contour.val,
                                          !.closes = @ + 1]
                       ELSE frame

ClosureCalculateLineLength ==
    /\ call' = [op |-> "calculate_line_length", contour |-> frame.contour,
                ndim |-> frame.ndim]
    /\ ret' = indexed_points(frame.ndim, Len(frame.contour) >= 2,
                             calculate_line_length(frame.contour))
    /\ UNCHANGED frame

\* calculate_area hands the array to cv2.contourArea, which reads the
\* (n, 2) and the (n, 1, 2) layout alike
ClosureCalculateArea ==
    /\ call' = [op |-> "calculate_area", contour |-> frame.contour,
                ndim |-> frame.ndim]
    /\ ret' = Value(calculate_area(frame.contour))
    /\ UNCHANGED frame

ClosureNext ==
    \/ ClosureIsContourClosed
    \/ ClosureAutoCloseContour
    \/ ClosureCalculateLineLength
    \/ ClosureCalculateArea

ClosureSpec == ClosureInit /\ [][ClosureNext]_vars

(***************************************************************************)
(* The unit conversions of AreaCalculator and the zone handler that uses   *)
(* them: one behaviour is one call.                                        *)
(***************************************************************************)
\* areas in square meters: whole numbers, fractions, about one acre, a
\* negative area
AreasSqMeters ==
    {Rat(a, 1) : a \in 0..MaxArea}
    \cup {Rat(1, 2), Rat(200, 3), Rat(100, 1), Rat(4047, 1), Rat(-3, 2)}

\* distances in pixels
DistancesPixels ==
    {Rat(0, 1), Rat(1, 1), Rat(5, 2), Rat(20, 1), Rat(40, 1), Rat(120, 1),
     Rat(1609, 1), Rat(2000, 1)}

\* the pixels_per_meter of the calculator: unset, zero, one, others
PixelsPerMeter ==
    {None, Some(Rat(0, 1)), Some(Rat(1, 1)), Some(Rat(2, 1)), Some(Rat(6, 1)),
     Some(Rat(10, 1)), Some(Rat(60, 1)), Some(Rat(-10, 1))}

DistanceUnits == {"meters", "feet", "yards"}

ConvertToAllUnitsCalls ==
    [op : {"convert_to_all_units"}, area_sq_meters : AreasSqMeters]

ConvertDistanceCalls ==
    [op : {"convert_distance"}, pixels_per_meter : PixelsPerMeter,
     distance_pixels : DistancesPixels, unit : DistanceUnits]

\* the point lists sent to /api/measure-zones
ZonePoints ==
    {<<<<0, 0>>, <<3, 4>>>>,
     <<<<0, 0>>, <<6, 0>>, <<6, 4>>, <<0, 4>>>>,
     <<<<0, 0>>, <<30, 0>>, <<0, 40>>>>,
     <<<<100, 100>>, <<700, 100>>, <<700, 500>>, <<100, 500>>, <<100, 100>>>>}

ZoneTypes == {"house", "garden"}

ZonePixelsPerMeter == {None, Some(0), Some(60), Some(-10)}

ZoneReferencePixels == {None, Some(0), Some(600), Some(-100)}

ZoneReferenceLengths == {None, Some(0), Some(10)}

ZoneReferenceUnits == {"meters", "METERS", "parsecs"}

MeasureZonesCalls ==
    [op : {"measure_zones"}, points : ZonePoints, zone_type : ZoneTypes,
     pixels_per_meter : ZonePixelsPerMeter,
     reference_pixels : ZoneReferencePixels,
     reference_length : ZoneReferenceLengths,
     reference_unit : ZoneReferenceUnits]

UnitsCalls == ConvertToAllUnitsCalls \cup ConvertDistanceCalls \cup MeasureZonesCalls

UnitsInit ==
    /\ call \in UnitsCalls
    /\ ret = Pending
    /\ frame = NoFrame

ConvertToAllUnits ==
    /\ call.op = "convert_to_all_units" /\ ret = Pending
    /\ ret' = Value(convert_to_all_units(call.area_sq_meters))
    /\ UNCHANGED <<call, frame>>

ConvertDistance ==
    /\ call.op = "convert_distance" /\ ret = Pending
    /\ ret' = Value(convert_distance(call.pixels_per_meter, call.distance_pixels,
                                     call.unit))
    /\ UNCHANGED <<call, frame>>

MeasureZones ==
    /\ call.op = "measure_zones" /\ ret = Pending
    /\ LET r == measure_zones(call.points, call.zone_type, call.pixels_per_meter,
                              call.reference_pixels, call.reference_length,
                              call.reference_unit)
       IN  ret' = r.ret /\ frame' = r.frame
    /\ UNCHANGED call

UnitsNext ==
    \/ ConvertToAllUnits
    \/ ConvertDistance
    \/ MeasureZones

UnitsSpec == UnitsInit /\ [][UnitsNext]_vars

(***************************************************************************)
(* Several invocations of process_image_array interleaved on the shared    *)
(* module-level processor.  call[i] is the image of invocation i, ret[i]   *)
(* its outcome, frame.locals[i] its local variables and position, and      *)
(* frame.self the fields of the one ImageMeasurementProcessor instance.     *)
(***************************************************************************)
\* ImageMeasurementProcessor.__init__
NewProcessor == [debug_mode |-> FALSE]

\* process_image_array: preprocessing and detection
pipeline_detect(self, image_array) == detect_drawn_lines(image_array)

\* process_image_array: the result without contours
NoLinesResult ==
    [line_length |-> <<"0">>, area |-> <<"0">>, unit |-> "pixels",
     notes |-> NoLinesNote]

\* process_image_array: selection of the main boundary and its closing
pipeline_select(self, contours) ==
    LET main_contour == max_by_area(contours)
        is_closed == is_contour_closed(main_contour, default_threshold)
    IN  [main_contour |-> main_contour, is_closed |-> is_closed,
         closing |-> IF ~is_closed
                     THEN auto_close_contour(main_contour, cv_contour_ndim)
                     ELSE Value(main_contour)]

\* process_image_array: the measurements and the scale detection
pipeline_measure(self, image_array, contours, main_contour) ==
    [line_length |-> calculate_line_length(main_contour),
     area |-> calculate_area(main_contour),
     scale_factor |-> detect_scale_reference(image_array, contours)]

\* the result with a note added when the instance's debug flag is set
pipeline_result_debug(self, locals) ==
    LET notes_list ==
            NotesOf(locals.is_closed, locals.contours,
                    <<"No reference scale detected. Measurements in pixels only.">>)
            \o (IF self.debug_mode THEN <<"debug">> ELSE << >>)
    IN  [line_length |-> Format2(locals.line_length),
         area |-> Format2(locals.area),
         unit |-> "pixels",
         notes |-> Join(notes_list, 1)]

\* process_image_array: notes, units and the result record
pipeline_result(self, locals) ==
    LET scaled == TruthyRat(locals.scale_factor)
        notes_list ==
            NotesOf(locals.is_closed, locals.contours,
                    IF scaled THEN << >>
                    ELSE <<"No reference scale detected. Measurements in pixels only.">>)
        line_length_out == IF scaled
                           THEN RatDiv(locals.line_length, locals.scale_factor[1])
                           ELSE locals.line_length
        area_out == IF scaled
                    THEN RatDivSq(locals.area, locals.scale_factor[1])
                    ELSE locals.area
    IN  [line_length |-> Format2(line_length_out),
         area |-> Format2(area_out),
         unit |-> IF scaled THEN "meters" ELSE "pixels",
         notes |-> IF Len(notes_list) > 0 THEN Join(notes_list, 1)
                   ELSE "Processing completed successfully."]

Invocations == 1..MaxInvocations

\* the images processed concurrently: empty, one boundary, noise only, two
\* boundaries
ConcurrentImages ==
    {<< >>,
     <<<<0, 0, 10, 10>>>>,
     <<<<0, 30, 5, 10>>>>,
     <<<<0, 0, 10, 10>>, <<40, 40, 12, 10>>>>}

ConcurrentInit ==
    /\ call \in [Invocations -> ConcurrentImages]
    /\ ret = [i \in Invocations |-> Pending]
    /\ frame = [self |-> NewProcessor,
                locals |-> [i \in Invocations |-> [pc |-> "start"]]]

PipelineDetect ==
    \E i \in Invocations :
        /\ frame.locals[i].pc = "start"
        /\ LET contours == pipeline_detect(frame.self, call[i])
           IN  IF Len(contours) = 0
               THEN /\ ret' = [ret EXCEPT ![i] = Value(NoLinesResult)]
                    /\ frame' = [frame EXCEPT !.locals[i] = [pc |-> "done"]]
               ELSE /\ frame' = [frame EXCEPT !.locals[i] =
                                    [pc |-> "detected", contours |-> contours]]
                    /\ UNCHANGED ret
        /\ UNCHANGED call

PipelineSelect ==
    \E i \in Invocations :
        /\ frame.locals[i].pc = "detected"
        /\ LET sel == pipeline_select(frame.self, frame.locals[i].contours)
           IN  IF sel.closing.kind = "raise"
               THEN /\ ret' = [ret EXCEPT ![i] = sel.closing]
                    /\ frame' = [frame EXCEPT !.locals[i] = [pc |-> "done"]]
               ELSE /\ frame' = [frame EXCEPT !.locals[i] =
                                    [pc |-> "selected",
                                     contours |-> frame.locals[i].contours,
                                     is_closed |-> sel.is_closed,
                                     main_contour |-> sel.closing.val]]
                    /\ UNCHANGED ret
        /\ UNCHANGED call

PipelineMeasure ==
    \E i \in Invocations :
        /\ frame.locals[i].pc = "selected"
        /\ LET loc == frame.locals[i]
               m == pipeline_measure(frame.self, call[i], loc.contours,
                                     loc.main_contour)
           IN  frame' = [frame EXCEPT !.locals[i] =
                            [pc |-> "measured", contours |-> loc.contours,
                             is_closed |-> loc.is_closed,
                             line_length |-> m.line_length, area |-> m.area,
                             scale_factor |-> m.scale_factor]]
        /\ UNCHANGED <<call, ret>>

PipelineReturn ==
    \E i \in Invocations :
        /\ frame.locals[i].pc = "measured"
        /\ ret' = [ret EXCEPT ![i] =
                      Value(pipeline_result(frame.self, frame.locals[i]))]
        /\ frame' = [frame EXCEPT !.locals[i] = [pc |-> "done"]]
        /\ UNCHANGED call

\* a holder of the instance assigns its public field
SetDebugMode ==
    /\ frame' = [frame EXCEPT !.self.debug_mode = ~@]
    /\ UNCHANGED <<call, ret>>

ConcurrentNext ==
    \/ PipelineDetect
    \/ PipelineSelect
    \/ PipelineMeasure
    \/ PipelineReturn
    \/ SetDebugMode

ConcurrentSpec == ConcurrentInit /\ [][ConcurrentNext]_vars

(***************************************************************************)
(* Properties.                                                             *)
(***************************************************************************)
Done == ret # Pending

\* the units and factors the specification gives for manualScale
CanonicalUnits == {"meters", "feet", "yards", "inches", "cm", "mm"}

SpecFactor ==
    [meters |-> Rat(1, 1), feet |-> Rat(3048, 10000), yards |-> Rat(9144, 10000),
     inches |-> Rat(254, 10000), cm |-> Rat(1, 100), mm |-> Rat(1, 1000)]

DigitOf(c) == CHOOSE k \in 0..9 : Digit[k + 1] = c

RECURSIVE ParseDigits(_, _, _, _, _)
ParseDigits(s, i, acc, den, dot) ==
    IF i > Len(s) THEN Rat(acc, den)
    ELSE IF s[i] = "." THEN ParseDigits(s, i + 1, acc, den, TRUE)
    ELSE ParseDigits(s, i + 1, acc * 10 + DigitOf(s[i]),
                     IF dot THEN den * 10 ELSE den, dot)

\* the number a formatted decimal string denotes
ParseDec(s) ==
    IF Len(s) > 0 /\ s[1] = "-"
    THEN LET v == ParseDigits(s, 2, 0, 1, FALSE) IN [n |-> -v.n, d |-> v.d]
    ELSE ParseDigits(s, 1, 0, 1, FALSE)

ImageOps == {"measure_image", "measure_with_scale"}

\* the call is an image measurement whose image was decoded
ImageMeasured == call.op \in ImageOps /\ Done /\ call.image # None

\* C1: manualScale(pixelLength, realLength, unit), for a unit of {meters,
\* feet, yards, inches, cm, mm} in any letter case and positive lengths,
\* returns pixelLength / (realLength x factor(unit)).
C1_ManualScaleFormula ==
    (/\ call.op = "manual_scale_input" /\ Done
     /\ lower(call.unit) \in CanonicalUnits
     /\ call.pixel_length > 0 /\ call.real_length > 0)
    => ret = Value(Some(RatDiv(Rat(call.pixel_length, 1),
                               RatMul(Rat(call.real_length, 1),
                                      SpecFactor[lower(call.unit)]))))

\* C2: manualScale fails (UnknownUnit) for every unit string outside the six
\* units, compared case-insensitively; it never returns a scale factor.
\* (Stated for positive lengths, where the unit is the only fault.)
C2_UnknownUnitFails ==
    (/\ call.op \in CalibrationOps /\ Done
     /\ lower(call.unit) \notin CanonicalUnits
     /\ call.pixel_length > 0 /\ call.real_length > 0)
    => ret.kind = "raise"

\* C3: manualScale fails (InvalidReference) whenever the real length in
\* meters is <= 0 or the pixel length is <= 0; it returns no value then.
C3_InvalidReferenceFails ==
    (/\ call.op \in CalibrationOps /\ Done
     /\ lower(call.unit) \in CanonicalUnits
     /\ (call.real_length <= 0 \/ call.pixel_length <= 0))
    => ret.kind = "raise"

\* C4: every scale factor a calibration returns, and every scale factor a
\* measuring operation converts with, is strictly greater than 0.
C4_ScaleFactorPositive ==
    /\ (call.op \in CalibrationOps /\ Done /\ ret.kind = "return"
        /\ ret.val # None)
       => ret.val[1].n > 0
    /\ (call.op \in MeasuringOps /\ Done /\ frame.at = "scaled")
       => frame.scale_factor[1].n > 0

\* C5: in every result record of a measuring operation the reported length
\* and area are >= 0.
C5_ResultNonNegative ==
    (call.op \in MeasuringOps /\ Done /\ ret.kind = "return")
    => /\ ParseDec(ret.val.content.line_length).n >= 0
       /\ ParseDec(ret.val.content.area).n >= 0

C7_MainBoundaryIsFirstLargest ==
    (ImageMeasured /\ detect_drawn_lines(call.image[1]) # << >>)
    => LET cs == detect_drawn_lines(call.image[1])
       IN  \E i \in 1..Len(cs) :
               /\ frame.main_contour = cs[i]
               /\ \A j \in 1..Len(cs) :
                      ~RatLt(contourArea(cs[i]), contourArea(cs[j]))
               /\ \A j \in 1..(i - 1) :
                      RatLt(contourArea(cs[j]), contourArea(cs[i]))

\* two different candidates share the largest area and one was selected
C7_Witness ==
    /\ ImageMeasured
    /\ LET cs == detect_drawn_lines(call.image[1])
       IN  /\ Len(cs) >= 2
           /\ \E i, j \in 1..Len(cs) :
                  /\ i < j /\ cs[i] # cs[j]
                  /\ contourArea(cs[i]) = contourArea(cs[j])
                  /\ \A k \in 1..Len(cs) :
                         ~RatLt(contourArea(cs[i]), contourArea(cs[k]))
                  /\ frame.main_contour = cs[i]

\* sum over the cyclic point sequence of x_i * y_(i+1) - x_(i+1) * y_i
RECURSIVE ShoelaceFrom(_, _)
ShoelaceFrom(p, i) ==
    IF i > Len(p) THEN 0
    ELSE LET j == IF i = Len(p) THEN 1 ELSE i + 1
         IN  (p[i][1] * p[j][2] - p[j][1] * p[i][2]) + ShoelaceFrom(p, i + 1)

AreaOps == {"calculate_area", "calculate_garden_area"}

\* C8: area(polygon) = 0.5 x |sum of x_i*y_(i+1) - x_(i+1)*y_i| over the
\* cyclic point sequence for 3 points or more, and 0 for fewer than 3.
C8_AreaIsShoelace ==
    (call.op \in AreaOps /\ Done)
    => ret = Value(IF Len(call.contour) >= 3
                   THEN Rat(Abs(ShoelaceFrom(call.contour, 1)), 2)
                   ELSE Zero)

\* the area of a polygon whose cross-product sum is negative was computed
C8_Witness ==
    /\ call.op = "calculate_area" /\ Done
    /\ Len(call.contour) >= 3
    /\ ShoelaceFrom(call.contour, 1) < 0

\* C9: area(polygon) = area(polygon with its points in reverse order).
C9_AreaOrientationIndependent ==
    (call.op = "calculate_area" /\ Done)
    => ret = Value(calculate_area(Reverse(call.contour)))

\* the area of a polygon of non-zero area, other than its own reverse, was
\* computed
C9_Witness ==
    /\ call.op = "calculate_area" /\ Done
    /\ Reverse(call.contour) # call.contour
    /\ ret.val # Zero

\* Euclidean distance of two points, in thousandths
Dist(a, b) ==
    np_sqrt((b[1] - a[1]) * (b[1] - a[1]) + (b[2] - a[2]) * (b[2] - a[2]))

\* the distances between consecutive points, first to last
RECURSIVE PathLength(_, _)
PathLength(p, n) ==
    IF n < 2 THEN 0 ELSE PathLength(p, n - 1) + Dist(p[n - 1], p[n])

LengthOps == {"calculate_line_length", "calculate_perimeter"}

\* C10: length(polygon) is the sum of the distances between consecutive
\* points plus the distance from the last point back to the first, for 2
\* points or more, open or closed; it is 0 for fewer than 2 points.
C10_LengthIsCyclicSum ==
    (call.op \in LengthOps /\ Done)
    => LET p == call.contour
       IN  ret = Value(IF Len(p) >= 2
                       THEN Rat(PathLength(p, Len(p)) + Dist(p[Len(p)], p[1]),
                                Milli)
                       ELSE Zero)

\* the length of a polyline of 2 different points was computed: twice their
\* distance
C10_Witness ==
    /\ call.op = "calculate_line_length" /\ Done
    /\ Len(call.contour) = 2
    /\ call.contour[1] # call.contour[2]
    /\ ret.val = Rat(2 * Dist(call.contour[1], call.contour[2]), Milli)

\* the x and the y coordinates of the points of p
XsOf(p) == {p[i][1] : i \in 1..Len(p)}

YsOf(p) == {p[i][2] : i \in 1..Len(p)}

\* the difference of the two numbers of a set of two numbers
Spread(S) == CHOOSE k \in 1..(MaxCoord + MaxSide + 1) : \E a \in S : S = {a, a + k}

\* p is the 4 corners of an axis-aligned square, in order around it
IsAxisSquare(p) ==
    /\ Len(p) = 4
    /\ Cardinality(XsOf(p)) = 2 /\ Cardinality(YsOf(p)) = 2
    /\ {p[i] : i \in 1..4} = XsOf(p) \X YsOf(p)
    /\ \A i \in 1..4 : p[i][1] = p[(i % 4) + 1][1] \/ p[i][2] = p[(i % 4) + 1][2]
    /\ Spread(XsOf(p)) = Spread(YsOf(p))

\* C11: for every axis-aligned square given by its 4 corners, of side s,
\* area returns s squared and length returns 4s.
C11_SquareAreaAndLength ==
    (Done /\ call.op \in GeometryOps /\ IsAxisSquare(call.contour))
    => LET s == Spread(XsOf(call.contour))
       IN  /\ call.op \in AreaOps => ret = Value(Rat(s * s, 1))
           /\ call.op \in LengthOps => ret = Value(Rat(4 * s, 1))

\* the length of a square of the longest side was computed
C11_Witness ==
    /\ call.op = "calculate_line_length" /\ Done
    /\ IsAxisSquare(call.contour)
    /\ Spread(XsOf(call.contour)) = MaxSide
    /\ ret = Value(Rat(4 * MaxSide, 1))

\* the squared distance between two points
SqDist(a, b) == (b[1] - a[1]) * (b[1] - a[1]) + (b[2] - a[2]) * (b[2] - a[2])

\* C12: is_contour_closed(contour, threshold) is true if and only if the
\* contour has at least 3 points and the distance between its first and its
\* last point is strictly below the threshold; a distance equal to the
\* threshold gives false.  Stated on contours of the (n, 1, 2) layout.
C12_ClosedIffCloseEnds ==
    (call.op = "is_contour_closed" /\ call.ndim = cv_contour_ndim)
    => ret = Value(/\ Len(call.contour) >= 3
                   /\ SqDist(call.contour[1], call.contour[Len(call.contour)])
                      < call.threshold * call.threshold)

\* ends exactly the default threshold apart are not closed
C12_Witness ==
    /\ call.op = "is_contour_closed" /\ call.ndim = cv_contour_ndim
    /\ Len(call.contour) >= 3
    /\ call.threshold = default_threshold
    /\ SqDist(call.contour[1], call.contour[Len(call.contour)])
       = default_threshold * default_threshold
    /\ ret = Value(FALSE)

\* C13: auto_close_contour on a non-empty contour of n points returns n + 1
\* points: the input points in order, then the input's first point.
C13_AutoCloseAppendsFirst ==
    (call.op = "auto_close_contour" /\ Len(call.contour) > 0)
    => ret = Value(Append(call.contour, call.contour[1]))

\* the client started from an open polyline
OriginIsOpen ==
    /\ Len(frame.origin) >= 2
    /\ frame.origin[1] # frame.origin[Len(frame.origin)]

\* C14: for every open polyline p the length of auto_close_contour(p),
\* closed once or repeatedly, is the always-wrapping length of p.
C14_ClosingKeepsLength ==
    (call.op = "calculate_line_length" /\ OriginIsOpen /\ frame.closes >= 1)
    => ret = Value(calculate_line_length(frame.origin))

ManualOps == {"measure_with_scale", "measure_coordinates"}

\* a measurement was made with a manual reference of positive lengths
ScaledByReference ==
    /\ call.op \in ManualOps /\ Done
    /\ frame.at \in {"scaled", "pixels"}
    /\ call.reference_pixels # None /\ call.reference_pixels[1] > 0
    /\ call.reference_length # None /\ call.reference_length[1] > 0

\* the request of the end-to-end example: the closed 600 x 400 boundary
\* with 600 px = 10 meters
ExampleRequest ==
    [op |-> "measure_coordinates",
     points |-> <<<<100, 100>>, <<700, 100>>, <<700, 500>>, <<100, 500>>,
                  <<100, 100>>>>,
     reference_pixels |-> Some(600), reference_length |-> Some(10),
     reference_unit |-> "meters"]

\* C15: when a valid manual reference yields scale factor k, the measuring
\* operation returns unit "meters" with length = pixel length / k and area =
\* pixel area / k squared; the closed 600 x 400 boundary with 600 px = 10
\* meters gives k = 60, perimeter 33.33 and area 66.67.
C15_ScaledByFactor ==
    /\ ScaledByReference
       => /\ frame.scale_factor # None
          /\ ret.kind = "return"
          /\ ret.val.content.unit = "meters"
          /\ ret.val.content.line_length
             = Format2(RatDiv(frame.line_length_px, frame.scale_factor[1]))
          /\ ret.val.content.area
             = Format2(RatDivSq(frame.area_px, frame.scale_factor[1]))
    /\ (Done /\ call = ExampleRequest)
       => /\ frame.scale_factor = Some(Rat(60, 1))
          /\ frame.line_length_px = Rat(2000, 1)
          /\ frame.area_px = Rat(240000, 1)
          /\ ret.val.content.line_length = <<"3", "3", ".", "3", "3">>
          /\ ret.val.content.area = <<"6", "6", ".", "6", "7">>

\* the example request was answered in meters
C15_Witness ==
    /\ Done /\ call = ExampleRequest
    /\ ret.val.content.unit = "meters"
    /\ ret.val.content.line_length = <<"3", "3", ".", "3", "3">>

\* C16: when a manual reference whose pixel length or real length is
\* non-positive (zero included) is supplied to a measuring operation, the
\* operation fails with an error; it never returns a pixel-unit result as
\* if no reference had been given.  Stated for requests whose boundary was
\* found and measured.
C16_NonPositiveReferenceFails ==
    (/\ call.op \in ManualOps /\ Done
     /\ frame.at \in {"scaled", "pixels"}
     /\ call.reference_pixels # None /\ call.reference_length # None
     /\ (call.reference_pixels[1] <= 0 \/ call.reference_length[1] <= 0))
    => ret.kind = "raise"

\* a boundary was found and measured
BoundaryMeasured ==
    call.op \in MeasuringOps /\ Done /\ frame.at \in {"scaled", "pixels"}

\* the boundary before closing, and the number of candidates detected
OriginalBoundary ==
    IF call.op = "measure_coordinates" THEN call.points ELSE frame.main_contour

Candidates ==
    IF call.op = "measure_coordinates" THEN 1 ELSE Len(frame.contours)

\* the scale-applied note or the pixels-only note of the operation
FinalNote ==
    IF ret.val.content.unit = "meters"
    THEN ScaleNote(call.reference_length[1], call.reference_unit,
                   call.reference_pixels[1])
    ELSE IF call.op = "measure_image"
         THEN "No reference scale detected. Measurements in pixels only."
         ELSE "No reference scale provided. Measurements in pixels only."

\* C17: in every result for a non-empty detection the notes are, in this
\* order: the auto-close note (only if the boundary was auto-closed), the
\* multi-segment note (only if more than one candidate was detected), then
\* exactly one final note, the scale-applied or the pixels-only note.
C17_NotesInFixedOrder ==
    BoundaryMeasured
    => ret.val.content.notes
       = Join((IF frame.measured # OriginalBoundary
               THEN <<AutoCloseNote>> ELSE << >>)
              \o (IF Candidates > 1
                  THEN <<SegmentsNote(Candidates)>> ELSE << >>)
              \o <<FinalNote>>, 1)

\* a scaled result of an image with several candidates
C17_Witness ==
    /\ BoundaryMeasured /\ call.op = "measure_with_scale"
    /\ Candidates > 1
    /\ ret.val.content.unit = "meters"
    /\ frame.notes_list
       = <<SegmentsNote(Candidates),
           ScaleNote(call.reference_length[1], call.reference_unit,
                     call.reference_pixels[1])>>

\* the string is a decimal number with exactly two digits after the point
IsTwoDecimal(str) ==
    /\ Len(str) >= 4
    /\ str[Len(str) - 2] = "."
    /\ \A i \in 1..Len(str) :
           i # Len(str) - 2
           => \/ \E k \in 1..10 : str[i] = Digit[k]
              \/ i = 1 /\ str[i] = "-"

\* a measuring operation returned a result record
ResultReturned == call.op \in MeasuringOps /\ Done /\ ret.kind = "return"

C19_AreaToAllUnits ==
    (call.op = "convert_to_all_units" /\ Done)
    => /\ ret.kind = "return"
       /\ DOMAIN ret.val = {"sq_meters", "sq_feet", "acres"}
       /\ ret.val.sq_meters = round(call.area_sq_meters, 2)
       /\ ret.val.sq_feet
          = round_product(call.area_sq_meters, Rat(10764, 1000), 2)
       /\ ret.val.acres
          = round_product(call.area_sq_meters, Rat(247105, 1000000000), 4)
       /\ call.area_sq_meters = Rat(1, 1)
          => ret.val = [sq_meters |-> Rat(1, 1), sq_feet |-> Rat(1076, 100),
                        acres |-> Rat(2, 10000)]
       /\ call.area_sq_meters = Rat(4047, 1)
          => ret.val = [sq_meters |-> Rat(4047, 1), sq_feet |-> Rat(4356191, 100),
                        acres |-> Rat(1, 1)]

\* one square meter was converted
C19_Witness ==
    /\ call.op = "convert_to_all_units" /\ Done
    /\ call.area_sq_meters = Rat(1, 1)
    /\ ret.val.acres = Rat(2, 10000)

\* a distance in meters in meters, feet, yards and miles, 2 decimals each
AllDistanceUnits(d) ==
    [meters |-> round(d, 2),
     feet |-> round_product(d, Rat(328084, 100000), 2),
     yards |-> round_product(d, Rat(109361, 100000), 2),
     miles |-> round_product(d, Rat(621371, 1000000000), 2)]

\* C20 as stated: convert_distance(d) takes d as a distance in meters and
\* returns exactly the keys meters, feet, yards and miles, with meters = d,
\* feet = d x 3.28084, yards = d x 1.09361 and miles = d x 0.000621371,
\* each rounded to 2 decimals, for every input.
C20_DistanceInMetersAsStated ==
    (call.op = "convert_distance" /\ Done)
    => ret = Value(AllDistanceUnits(call.distance_pixels))

\* C20: convert_distance(d) takes d as a distance in pixels: on a
\* calculator whose pixels_per_meter k is set and non-zero it returns
\* exactly the keys meters, feet, yards and miles for the distance d / k
\* meters, each rounded to 2 decimals; otherwise it returns {pixels: d}.
\* measure_zones reports its perimeter this way.
C20_DistanceFromPixels ==
    /\ (call.op = "convert_distance" /\ Done)
       => /\ ret.kind = "return"
          /\ IF call.pixels_per_meter = None \/ call.pixels_per_meter[1] = Zero
             THEN ret.val = [pixels |-> call.distance_pixels]
             ELSE /\ DOMAIN ret.val = {"meters", "feet", "yards", "miles"}
                  /\ ret.val = AllDistanceUnits(
                         RatDiv(call.distance_pixels, call.pixels_per_meter[1]))
          /\ (call.distance_pixels = Rat(2000, 1)
              /\ call.pixels_per_meter = Some(Rat(60, 1)))
             => ret.val = [meters |-> Rat(3333, 100), feet |-> Rat(10936, 100),
                           yards |-> Rat(3645, 100), miles |-> Rat(2, 100)]
    /\ (call.op = "measure_zones" /\ Done /\ frame.at = "scaled")
       => ret.val.content.perimeter
          = AllDistanceUnits(RatDiv(frame.perimeter_px, frame.pixels_per_meter[1]))

\* 2000 pixels were converted at 60 pixels per meter
C20_Witness ==
    /\ call.op = "convert_distance" /\ Done
    /\ call.distance_pixels = Rat(2000, 1)
    /\ call.pixels_per_meter = Some(Rat(60, 1))
    /\ ret.val.meters = Rat(3333, 100)

\* C21: for every well-formed polygon, the degenerate ones of 0, 1 or 2
\* points included, closure checking, auto-closing, length and area never
\* raise.  Stated on contours of the (n, 1, 2) layout.
C21_GeometryNeverRaises ==
    (call.op # "none" /\ call.ndim = cv_contour_ndim) => ret.kind = "return"

\* C22: for any number of invocations interleaved on the shared processor,
\* each invocation returns the result it returns when run alone on its
\* image.
C22_SameResultAsAlone ==
    \A i \in Invocations :
        ret[i] # Pending => ret[i] = process_image_array(call[i]).result

\* two invocations on different images have returned, the instance's flag
\* having been set meanwhile
C22_Witness ==
    /\ \A i \in Invocations : ret[i] # Pending
    /\ \E i, j \in Invocations : ret[i] # ret[j]
    /\ \E i \in Invocations : Len(call[i]) > 1
    /\ frame.self.debug_mode

\* C23: the shared processing instance holds no mutable field, so no state
\* that a caller can change between invocations exists on the instance.
C23_InstanceNeverChanges == [][frame.self' = frame.self]_vars

PixelsOnlyNote == "No reference scale detected. Measurements in pixels only."

\* the pipeline returned a result record
PipelineReturned == call.op = "measure_image" /\ ResultReturned

\* the notes of the result end with the pixels-only note
EndsWithPixelsOnlyNote ==
    /\ Len(frame.notes_list) > 0
    /\ frame.notes_list[Len(frame.notes_list)] = PixelsOnlyNote
    /\ ret.val.content.notes = Join(frame.notes_list, 1)

\* scale detection returns "not found" for every image and contour list
NoScaleDetected ==
    (call.op \in DetectScaleOps /\ Done) => ret = Value(None)

\* C24 as stated: scale detection returns "not found" for every image and
\* every polygon list, so every pipeline invocation reports unit "pixels"
\* and ends its notes with the pixels-only note.
C24_PixelsOnlyAsStated ==
    /\ NoScaleDetected
    /\ PipelineReturned
       => /\ ret.val.content.unit = "pixels"
          /\ frame.at # "no_contours" /\ EndsWithPixelsOnlyNote

\* C24: scale detection returns "not found" for every image and every
\* polygon list, so every pipeline invocation reports unit "pixels"; its
\* notes end with the pixels-only note when a boundary was detected and are
\* the no-lines note when none was.
C24_PixelsOnlyWithoutReference ==
    /\ NoScaleDetected
    /\ PipelineReturned
       => /\ ret.val.content.unit = "pixels"
          /\ IF frame.at = "no_contours"
             THEN ret.val.content.notes = NoLinesNote
             ELSE EndsWithPixelsOnlyNote

\* an image with two boundaries was measured: the pixels-only note follows
\* the note on the segments
C24_Witness ==
    /\ PipelineReturned /\ frame.at # "no_contours"
    /\ Len(frame.notes_list) > 1
    /\ frame.scale_factor = None
    /\ ret.val.content.unit = "pixels"
    /\ EndsWithPixelsOnlyNote

\* an image handler finished a request whose upload could not be decoded
DecodeFailed == call.op \in ImageOps /\ Done /\ call.image = None

\* C25: when the upload cannot be decoded the handler raises before the
\* pipeline runs: the request ends at the decode check with an error and
\* no detection or measurement was made on the absent image.
C25_DecodeFailureBeforePipeline ==
    /\ DecodeFailed
       => /\ ret.kind = "raise"
          /\ frame.at = "decode_failed"
          /\ DOMAIN frame = {"at"}
    /\ (call.op \in ImageOps /\ Done /\ "contours" \in DOMAIN frame)
       => call.image # None /\ frame.contours = detect_drawn_lines(call.image[1])

\* POST /api/measure ended at the decode check
C25_Witness ==
    /\ DecodeFailed /\ call.op = "measure_image"
    /\ ret.kind = "raise" /\ frame.at = "decode_failed"

\* the pixels a region <<x, y, w, h>> encloses
EnclosedArea(r) == r[3] * r[4]

EnclosesMoreThanMinArea(r) == EnclosedArea(r) > min_area

\* the regions of the image that enclose more than min_area, in the order
\* of the image
LargeRegions(image) == SelectSeq(image, EnclosesMoreThanMinArea)

\* an image handler detected the contours of a decoded image
Detected == call.op \in ImageOps /\ Done /\ "contours" \in DOMAIN frame

\* C26: detect returns exactly the external contours that enclose strictly
\* more than 50 square pixels, in the order of discovery: none of area 50
\* or less is returned, none above 50 is dropped, none is reordered.
C26_DetectKeepsLargeContoursInOrder ==
    Detected
    => LET kept == LargeRegions(call.image[1])
       IN  /\ Len(frame.contours) = Len(kept)
           /\ \A i \in 1..Len(kept) : frame.contours[i] = RectContour(kept[i])

\* of two regions the one enclosing exactly 50 square pixels was dropped
C26_Witness ==
    /\ Detected
    /\ Len(call.image[1]) = 2 /\ Len(frame.contours) = 1
    /\ \E i \in 1..2 : EnclosedArea(call.image[1][i]) = min_area

\* C28: when the upload cannot be decoded the image endpoint answers with
\* HTTP status 400 and detail "Could not decode image file"; the 400 raised
\* in the handler is not turned into another status.
C28_DecodeFailureIs400 ==
    DecodeFailed
    => /\ ret.kind = "raise"
       /\ ret.status_code = DecodeFailure.status_code
       /\ ret.detail = DecodeFailure.detail

\* the boundary a finished measurement selected
SelectedBoundary ==
    IF call.op = "measure_coordinates" THEN call.points ELSE frame.main_contour

\* a measuring operation returned the measurement of a selected boundary
BoundaryResult ==
    ResultReturned /\ "measured" \in DOMAIN frame

\* autoClose was applied to the selected boundary
AutoCloseApplied == frame.measured # SelectedBoundary

\* C27: in every measuring operation the selected boundary is auto-closed
\* exactly when isClosed with the 5.0-pixel threshold reports it not closed,
\* autoClose is applied at most once, and the auto-close note is in the
\* result if and only if autoClose was applied.
C27_AutoClosedExactlyWhenOpen ==
    BoundaryResult
    => /\ AutoCloseApplied
          <=> ~is_contour_closed(SelectedBoundary, default_threshold)
       /\ frame.measured \in
              {SelectedBoundary, SelectedBoundary \o <<SelectedBoundary[1]>>}
       /\ (\E i \in 1..Len(frame.notes_list) : frame.notes_list[i] = AutoCloseNote)
          <=> AutoCloseApplied

\* what the other calibration implementation answers to the finished call
OtherCalibration ==
    IF call.op = "manual_scale_input"
    THEN calculate_scale_from_reference(call.pixel_length, call.real_length, call.unit)
    ELSE manual_scale_input(call.pixel_length, call.real_length, call.unit)

\* a calibration failed: an exception, or None in place of a factor
CalibrationFailed(r) == r.kind = "raise" \/ r = Value(None)

\* C29: ScaleDetector.manual_scale_input and
\* AreaCalculator.calculate_scale_from_reference agree on every input
\* (pixel length, real length, unit string): both return the same scale
\* factor or both fail.
C29_CalibrationsAgree ==
    (call.op \in CalibrationOps /\ Done)
    => \/ CalibrationFailed(ret) /\ CalibrationFailed(OtherCalibration)
       \/ ~CalibrationFailed(ret) /\ ret = OtherCalibration

\* C30: for every polygon p with at least 3 points, autoClose(p) is a
\* polygon whose area is the area of p: appending a copy of the first point
\* never changes the measured area.
C30_AutoClosePreservesArea ==
    /\ (call.op = "auto_close_contour" /\ Len(frame.origin) >= 3)
       => ret.kind = "return"
    /\ (call.op = "calculate_area" /\ frame.closes >= 1 /\ Len(frame.origin) >= 3)
       => ret = Value(calculate_area(frame.origin))

====
